---- MODULE Spec2Model ----
(***************************************************************************)
(* Model of the wire header framer of parsec-interface                     *)
(* (src/requests/common/wire_header_1_0.rs): WireHeader::write_to_stream   *)
(* and WireHeader::read_from_stream over one byte stream.                  *)
(*                                                                         *)
(* A byte is an integer in 0..255.  u8 and u16 values are integers.  TLC's *)
(* integers are 32 bits wide, so a u32 or u64 value is held as its 16-bit  *)
(* limbs, most significant limb first (<<hi, lo>> for a u32, four limbs    *)
(* for a u64); the little-endian wire encoding reverses that order.        *)
(***************************************************************************)
EXTENDS Integers, Sequences

VARIABLES
    wire,          \* every byte written to the stream so far, in order
    rpos,          \* number of bytes of wire the reader has consumed
    pool,          \* header values the caller holds and may encode
    wpc,           \* write_to_stream: the next write, or "idle"
    wh,            \* write_to_stream: self
    wstart,        \* length of wire when the running encode call began
    writes,        \* write_all calls issued by the running encode call
    sent,          \* finished encode calls, oldest first
    rpc,           \* read_from_stream: the next step, or "idle"
    rstart,        \* rpos when the running decode call began
    magic_number,  \* read_from_stream: local magic_number
    hdr_size,      \* read_from_stream: local hdr_size
    bytes,         \* read_from_stream: local bytes
    version_maj,   \* read_from_stream: local version_maj
    version_min,   \* read_from_stream: local version_min
    reads,         \* read_exact calls issued by the running decode call
    got            \* finished decode calls, oldest first

vars == <<wire, rpos, pool, wpc, wh, wstart, writes, sent, rpc, rstart,
          magic_number, hdr_size, bytes, version_maj, version_min, reads, got>>

wvars == <<wpc, wh, wstart, writes, sent>>
rvars == <<rpc, rstart, magic_number, hdr_size, bytes, version_maj,
           version_min, reads, got, rpos>>

----------------------------------------------------------------------------
\* Program constants.

WIRE_PROTOCOL_VERSION_MAJ == 1
WIRE_PROTOCOL_VERSION_MIN == 0
REQUEST_HDR_SIZE == 24
MAGIC_NUMBER == 1589683984

\* Bounds of the model.
MaxFrames == 3
MaxCalls == 3
TailLen == 2

----------------------------------------------------------------------------
\* Integer values and their bincode (fixed-width, little-endian) encoding.

\* A constant below 2^31 typed as u32.
U32(n) == <<n \div 65536, n % 65536>>

Take(s, n) == SubSeq(s, 1, IF n < Len(s) THEN n ELSE Len(s))
Drop(s, n) == SubSeq(s, n + 1, Len(s))

\* bincode::serialize of a u8.
SerializeU8(v) == <<v>>

\* Mutant: a u16 goes out high byte first.
SerializeU16BigEndian(v) == <<v \div 256, v % 256>>

\* bincode::serialize of a u16: low byte first.
SerializeU16(v) == <<v % 256, v \div 256>>

\* bincode::serialize of a u32 or u64 held as limbs: the least significant
\* limb goes out first, each limb low byte first.
RECURSIVE SerializeWide(_)
SerializeWide(v) ==
    IF v = <<>> THEN <<>>
    ELSE SerializeU16(v[Len(v)]) \o SerializeWide(SubSeq(v, 1, Len(v) - 1))

\* bincode::deserialize of a u16 from two bytes.
DeserializeU16(b) == b[1] + 256 * b[2]

\* bincode::deserialize of a u32 (4 bytes) or u64 (8 bytes) into limbs.
RECURSIVE DeserializeWide(_)
DeserializeWide(b) ==
    IF b = <<>> THEN <<>>
    ELSE DeserializeWide(Drop(b, 2)) \o <<DeserializeU16(Take(b, 2))>>

----------------------------------------------------------------------------
\* The WireHeader struct.

NoHeader == [none |-> TRUE]

WireHeader(p, s, c, a, t, b, l, o, st) ==
    [provider |-> p, session |-> s, content_type |-> c, accept_type |-> a,
     auth_type |-> t, body_len |-> b, auth_len |-> l, opcode |-> o,
     status |-> st]

\* WireHeader::new(): every field zero.
ZeroHeader == WireHeader(0, <<0, 0, 0, 0>>, 0, 0, 0, <<0, 0>>, 0, 0, 0)

\* Every field at the maximum of its width.
MaxHeader ==
    WireHeader(255, <<65535, 65535, 65535, 65535>>, 255, 255, 255,
               <<65535, 65535>>, 65535, 65535, 65535)

\* provider 1, session 2^64-1, content and accept type 1, body_len 100,
\* opcode 9.
ScenarioHeader ==
    WireHeader(1, <<65535, 65535, 65535, 65535>>, 1, 1, 0, <<0, 100>>, 0, 9, 0)

\* All 22 bytes different: provider 0x11, session 0x0102030405060708,
\* types 0x21 0x22 0x23, body_len 0x31323334, auth_len 0x4142,
\* opcode 0x5152, status 0x6162.
MixedHeader ==
    WireHeader(17, <<258, 772, 1286, 1800>>, 33, 34, 35, <<12594, 13108>>,
               16706, 20818, 24930)

Headers == {ZeroHeader, MaxHeader, ScenarioHeader, MixedHeader}

\* Mutant: status is written before opcode.
SerializeHeaderSwapped(h) ==
    SerializeU8(h.provider) \o SerializeWide(h.session)
    \o SerializeU8(h.content_type) \o SerializeU8(h.accept_type)
    \o SerializeU8(h.auth_type) \o SerializeWide(h.body_len)
    \o SerializeU16(h.auth_len) \o SerializeU16(h.status)
    \o SerializeU16(h.opcode)

\* bincode::serialize(&self): the fields in declaration order, no padding.
SerializeHeader(h) ==
    SerializeU8(h.provider) \o SerializeWide(h.session)
    \o SerializeU8(h.content_type) \o SerializeU8(h.accept_type)
    \o SerializeU8(h.auth_type) \o SerializeWide(h.body_len)
    \o SerializeU16(h.auth_len) \o SerializeU16(h.opcode)
    \o SerializeU16(h.status)

\* Bytes the struct takes on the wire: 1+8+1+1+1+4+2+2+2.
FieldsLen == 1 + 8 + 1 + 1 + 1 + 4 + 2 + 2 + 2

\* Mutant: accept_type and content_type are read in the wrong order.
DeserializeHeaderSwapped(b) ==
    IF Len(b) < FieldsLen
    THEN [status |-> "InvalidEncoding", header |-> NoHeader]
    ELSE [status |-> "Ok",
          header |-> WireHeader(b[1], DeserializeWide(SubSeq(b, 2, 9)),
                                b[11], b[10], b[12],
                                DeserializeWide(SubSeq(b, 13, 16)),
                                DeserializeU16(SubSeq(b, 17, 18)),
                                DeserializeU16(SubSeq(b, 19, 20)),
                                DeserializeU16(SubSeq(b, 21, 22)))]

\* bincode::deserialize::<WireHeader>(&bytes): the fields are read in
\* declaration order from the front of the slice; a slice that ends early
\* is an error, bytes past the last field are ignored.
DeserializeHeader(b) ==
    IF Len(b) < FieldsLen
    THEN [status |-> "InvalidEncoding", header |-> NoHeader]
    ELSE [status |-> "Ok",
          header |-> WireHeader(b[1], DeserializeWide(SubSeq(b, 2, 9)),
                                b[10], b[11], b[12],
                                DeserializeWide(SubSeq(b, 13, 16)),
                                DeserializeU16(SubSeq(b, 17, 18)),
                                DeserializeU16(SubSeq(b, 19, 20)),
                                DeserializeU16(SubSeq(b, 21, 22)))]

----------------------------------------------------------------------------
\* Results.  The ? operator turns a std::io::Error into
\* ResponseStatus::ConnectionError and a bincode error into
\* ResponseStatus::InvalidEncoding.

IoErrorStatus == "ConnectionError"

Result(st, h) == [status |-> st, header |-> h]

\* The calls the callers make on one stream stop after an I/O failure (the
\* connection is lost) and after an abort: no encode follows a failed
\* encode or a failed read, no decode follows a failed read.
Broken(log) == \E i \in 1..Len(log) : log[i].status \in {IoErrorStatus, "panic"}

----------------------------------------------------------------------------
\* write_to_stream.

\* Mutant: the minor version is written before the major version.
AfterWriteSwapped(pc) ==
    CASE pc = "magic" -> "size"
      [] pc = "size" -> "version_min"
      [] pc = "version_min" -> "version_maj"
      [] pc = "version_maj" -> "fields"
      [] pc = "fields" -> "return"

\* Where write_to_stream goes after each of its five writes.
AfterWrite(pc) ==
    CASE pc = "magic" -> "size"
      [] pc = "size" -> "version_maj"
      [] pc = "version_maj" -> "version_min"
      [] pc = "version_min" -> "fields"
      [] pc = "fields" -> "return"

\* write_to_stream returns st, the failing write having put `accepted` of
\* its bytes on the stream.
WriteReturn(st, accepted) ==
    /\ sent' = Append(sent, [at |-> wstart, h |-> wh, status |-> st,
                             end |-> Len(wire'), writes |-> writes + 1,
                             accepted |-> accepted])
    /\ wpc' = "idle"
    /\ wh' = NoHeader
    /\ wstart' = 0
    /\ writes' = 0

\* How much of a transfer that fails went through before the failure, out
\* of at most n bytes: nothing, one byte, or all n.
Partial(n) == {k \in {0, 1, n} : k <= n}

\* stream.write_all(buf)?: either all of buf goes out and the call goes on,
\* or the write fails after a part of buf (possibly none of it) went out and
\* the call returns the error.
WriteAll(buf) ==
    \/ /\ wire' = wire \o buf
       /\ IF AfterWrite(wpc) = "return"
          THEN WriteReturn("Ok", Len(buf))
          ELSE /\ wpc' = AfterWrite(wpc)
               /\ writes' = writes + 1
               /\ UNCHANGED <<wh, wstart, sent>>
    \/ \E accepted \in Partial(Len(buf) - 1) :
          /\ wire' = wire \o Take(buf, accepted)
          /\ WriteReturn(IoErrorStatus, accepted)

\* A caller starts write_to_stream on a header it holds.
WriteStart(h) ==
    /\ wpc = "idle" /\ rpc = "idle"
    /\ Len(sent) < MaxFrames
    /\ ~Broken(sent) /\ ~Broken(got)
    /\ wpc' = "magic"
    /\ wh' = h
    /\ wstart' = Len(wire)
    /\ writes' = 0
    /\ UNCHANGED <<wire, pool, sent>>
    /\ UNCHANGED rvars

WriteMagic ==
    /\ wpc = "magic"
    /\ WriteAll(SerializeWide(U32(MAGIC_NUMBER)))
    /\ UNCHANGED pool
    /\ UNCHANGED rvars

WriteHdrSize ==
    /\ wpc = "size"
    /\ WriteAll(SerializeU16(REQUEST_HDR_SIZE))
    /\ UNCHANGED pool
    /\ UNCHANGED rvars

WriteVersionMaj ==
    /\ wpc = "version_maj"
    /\ WriteAll(SerializeU8(WIRE_PROTOCOL_VERSION_MAJ))
    /\ UNCHANGED pool
    /\ UNCHANGED rvars

WriteVersionMin ==
    /\ wpc = "version_min"
    /\ WriteAll(SerializeU8(WIRE_PROTOCOL_VERSION_MIN))
    /\ UNCHANGED pool
    /\ UNCHANGED rvars

WriteFields ==
    /\ wpc = "fields"
    /\ WriteAll(SerializeHeader(wh))
    /\ UNCHANGED pool
    /\ UNCHANGED rvars

----------------------------------------------------------------------------
\* read_from_stream.

\* Mutant: a single read() in place of read_exact(): a short read passes.
ReadShort(n) ==
    IF Len(wire) - rpos >= n
    THEN {[ok |-> TRUE, data |-> SubSeq(wire, rpos + 1, rpos + n),
           pos |-> rpos + n]}
    ELSE {[ok |-> TRUE,
           data |-> SubSeq(wire, rpos + 1, Len(wire))
                    \o [i \in 1..(n - (Len(wire) - rpos)) |-> 0],
           pos |-> Len(wire)]}

\* stream.read_exact(buf) for a buffer of n bytes: with n bytes left on the
\* stream it takes exactly those; with fewer it fails, and how many of the
\* bytes that were there it has taken is unspecified.
ReadExact(n) ==
    IF Len(wire) - rpos >= n
    THEN {[ok |-> TRUE, data |-> SubSeq(wire, rpos + 1, rpos + n),
           pos |-> rpos + n]}
    ELSE {[ok |-> FALSE, data |-> <<>>, pos |-> rpos + k] :
            k \in Partial(Len(wire) - rpos)}

\* get_from_stream!(stream, T): read_exact into a buffer of size_of::<T>()
\* = n bytes; the caller deserializes them as a T.
GetFromStream(n) == ReadExact(n)

\* read_from_stream returns r with the stream at pos.
ReadReturn(r, pos, nreads) ==
    /\ got' = Append(got, [at |-> rstart, avail |-> Len(wire) - rstart,
                           end |-> pos, status |-> r.status,
                           header |-> r.header, reads |-> nreads])
    /\ rpos' = pos
    /\ pool' = IF r.status = "Ok" THEN pool \cup {r.header} ELSE pool
    /\ rpc' = "idle"
    /\ rstart' = 0
    /\ magic_number' = <<>>
    /\ hdr_size' = 0
    /\ bytes' = <<>>
    /\ version_maj' = 0
    /\ version_min' = 0
    /\ reads' = 0

\* A caller starts read_from_stream on the stream.
ReadStart ==
    /\ rpc = "idle" /\ wpc = "idle"
    /\ Len(got) < MaxCalls
    /\ ~Broken(got)
    /\ rpc' = "magic"
    /\ rstart' = rpos
    /\ UNCHANGED <<wire, rpos, pool, magic_number, hdr_size, bytes,
                   version_maj, version_min, reads, got>>
    /\ UNCHANGED wvars

\* let magic_number = get_from_stream!(stream, u32);
ReadMagic ==
    /\ rpc = "magic"
    /\ \E r \in GetFromStream(4) :
          IF r.ok
          THEN /\ magic_number' = DeserializeWide(r.data)
               /\ rpos' = r.pos
               /\ reads' = reads + 1
               /\ rpc' = "check_magic"
               /\ UNCHANGED <<pool, rstart, hdr_size, bytes, version_maj,
                              version_min, got>>
          ELSE ReadReturn(Result(IoErrorStatus, NoHeader), r.pos, reads + 1)
    /\ UNCHANGED wire
    /\ UNCHANGED wvars

\* Mutant: only the low 16 bits of the magic number are compared.
CheckMagicLow ==
    /\ rpc = "check_magic"
    /\ IF magic_number[2] # U32(MAGIC_NUMBER)[2]
       THEN ReadReturn(Result("InvalidHeader", NoHeader), rpos, reads)
       ELSE /\ rpc' = "size"
            /\ UNCHANGED <<rpos, pool, rstart, magic_number, hdr_size, bytes,
                           version_maj, version_min, reads, got>>
    /\ UNCHANGED wire
    /\ UNCHANGED wvars

\* if magic_number != MAGIC_NUMBER { return Err(InvalidHeader); }
CheckMagic ==
    /\ rpc = "check_magic"
    /\ IF magic_number # U32(MAGIC_NUMBER)
       THEN ReadReturn(Result("InvalidHeader", NoHeader), rpos, reads)
       ELSE /\ rpc' = "size"
            /\ UNCHANGED <<rpos, pool, rstart, magic_number, hdr_size, bytes,
                           version_maj, version_min, reads, got>>
    /\ UNCHANGED wire
    /\ UNCHANGED wvars

\* let hdr_size = get_from_stream!(stream, u16);
ReadHdrSize ==
    /\ rpc = "size"
    /\ \E r \in GetFromStream(2) :
          IF r.ok
          THEN /\ hdr_size' = DeserializeU16(r.data)
               /\ rpos' = r.pos
               /\ reads' = reads + 1
               /\ rpc' = "bytes"
               /\ UNCHANGED <<pool, rstart, magic_number, bytes, version_maj,
                              version_min, got>>
          ELSE ReadReturn(Result(IoErrorStatus, NoHeader), r.pos, reads + 1)
    /\ UNCHANGED wire
    /\ UNCHANGED wvars

\* Mutant: the stream is read through a buffering reader made inside the
\* call, which takes everything that is there.
ReadBytesGreedy ==
    /\ rpc = "bytes"
    /\ \E r \in ReadExact(hdr_size) :
          IF r.ok
          THEN /\ bytes' = r.data
               /\ rpos' = Len(wire)
               /\ reads' = reads + 1
               /\ rpc' = "check_size"
               /\ UNCHANGED <<pool, rstart, magic_number, hdr_size,
                              version_maj, version_min, got>>
          ELSE ReadReturn(Result(IoErrorStatus, NoHeader), r.pos, reads + 1)
    /\ UNCHANGED wire
    /\ UNCHANGED wvars

\* Mutant: the declared length is compared before its bytes are read.
ReadBytesGated ==
    /\ rpc = "bytes"
    /\ IF hdr_size # REQUEST_HDR_SIZE
       THEN ReadReturn(Result("InvalidHeader", NoHeader), rpos, reads)
       ELSE \E r \in ReadExact(hdr_size) :
              IF r.ok
              THEN /\ bytes' = r.data
                   /\ rpos' = r.pos
                   /\ reads' = reads + 1
                   /\ rpc' = "check_size"
                   /\ UNCHANGED <<pool, rstart, magic_number, hdr_size,
                                  version_maj, version_min, got>>
              ELSE ReadReturn(Result(IoErrorStatus, NoHeader), r.pos,
                              reads + 1)
    /\ UNCHANGED wire
    /\ UNCHANGED wvars

\* let mut bytes = vec![0_u8; usize::try_from(hdr_size)?];
\* stream.read_exact(&mut bytes)?;
\* (a u16 always fits a usize: the conversion cannot fail)
ReadBytes ==
    /\ rpc = "bytes"
    /\ \E r \in ReadExact(hdr_size) :
          IF r.ok
          THEN /\ bytes' = r.data
               /\ rpos' = r.pos
               /\ reads' = reads + 1
               /\ rpc' = "check_size"
               /\ UNCHANGED <<pool, rstart, magic_number, hdr_size,
                              version_maj, version_min, got>>
          ELSE ReadReturn(Result(IoErrorStatus, NoHeader), r.pos, reads + 1)
    /\ UNCHANGED wire
    /\ UNCHANGED wvars

\* Mutant: only a declared length above 24 is refused.
CheckHdrSizeAbove ==
    /\ rpc = "check_size"
    /\ IF hdr_size > REQUEST_HDR_SIZE
       THEN ReadReturn(Result("InvalidHeader", NoHeader), rpos, reads)
       ELSE /\ rpc' = "version"
            /\ UNCHANGED <<rpos, pool, rstart, magic_number, hdr_size, bytes,
                           version_maj, version_min, reads, got>>
    /\ UNCHANGED wire
    /\ UNCHANGED wvars

\* if hdr_size != REQUEST_HDR_SIZE { return Err(InvalidHeader); }
CheckHdrSize ==
    /\ rpc = "check_size"
    /\ IF hdr_size # REQUEST_HDR_SIZE
       THEN ReadReturn(Result("InvalidHeader", NoHeader), rpos, reads)
       ELSE /\ rpc' = "version"
            /\ UNCHANGED <<rpos, pool, rstart, magic_number, hdr_size, bytes,
                           version_maj, version_min, reads, got>>
    /\ UNCHANGED wire
    /\ UNCHANGED wvars

\* let version_maj = bytes.remove(0); let version_min = bytes.remove(0);
\* Vec::remove panics when the index is out of bounds.
TakeVersion ==
    /\ rpc = "version"
    /\ IF Len(bytes) < 2
       THEN ReadReturn(Result("panic", NoHeader), rpos, reads)
       ELSE /\ version_maj' = bytes[1]
            /\ version_min' = bytes[2]
            /\ bytes' = Drop(bytes, 2)
            /\ rpc' = "check_version"
            /\ UNCHANGED <<rpos, pool, rstart, magic_number, hdr_size, reads,
                           got>>
    /\ UNCHANGED wire
    /\ UNCHANGED wvars

\* Mutant: a different minor version is tolerated.
CheckVersionMajorOnly ==
    /\ rpc = "check_version"
    /\ IF version_maj # WIRE_PROTOCOL_VERSION_MAJ
       THEN ReadReturn(Result("WireProtocolVersionNotSupported", NoHeader),
                       rpos, reads)
       ELSE /\ rpc' = "fields"
            /\ UNCHANGED <<rpos, pool, rstart, magic_number, hdr_size, bytes,
                           version_maj, version_min, reads, got>>
    /\ UNCHANGED wire
    /\ UNCHANGED wvars

\* if version_maj != WIRE_PROTOCOL_VERSION_MAJ
\*     || version_min != WIRE_PROTOCOL_VERSION_MIN
\* { return Err(WireProtocolVersionNotSupported); }
CheckVersion ==
    /\ rpc = "check_version"
    /\ IF version_maj # WIRE_PROTOCOL_VERSION_MAJ
          \/ version_min # WIRE_PROTOCOL_VERSION_MIN
       THEN ReadReturn(Result("WireProtocolVersionNotSupported", NoHeader),
                       rpos, reads)
       ELSE /\ rpc' = "fields"
            /\ UNCHANGED <<rpos, pool, rstart, magic_number, hdr_size, bytes,
                           version_maj, version_min, reads, got>>
    /\ UNCHANGED wire
    /\ UNCHANGED wvars

\* Ok(bincode::deserialize(&bytes)?)
DeserializeFields ==
    /\ rpc = "fields"
    /\ ReadReturn(DeserializeHeader(bytes), rpos, reads)
    /\ UNCHANGED wire
    /\ UNCHANGED wvars

----------------------------------------------------------------------------
\* Specifications.

Idle ==
    /\ rpos = 0
    /\ wpc = "idle" /\ wh = NoHeader /\ wstart = 0 /\ writes = 0
    /\ sent = <<>>
    /\ rpc = "idle" /\ rstart = 0 /\ magic_number = <<>> /\ hdr_size = 0
    /\ bytes = <<>> /\ version_maj = 0 /\ version_min = 0 /\ reads = 0
    /\ got = <<>>

\* A fresh stream between two callers that hold the headers of Headers.
Init ==
    /\ wire = <<>>
    /\ pool = Headers
    /\ Idle

Next ==
    \/ \E h \in pool : WriteStart(h)
    \/ WriteMagic
    \/ WriteHdrSize
    \/ WriteVersionMaj
    \/ WriteVersionMin
    \/ WriteFields
    \/ ReadStart
    \/ ReadMagic
    \/ CheckMagic
    \/ ReadHdrSize
    \/ ReadBytes
    \/ CheckHdrSize
    \/ TakeVersion
    \/ CheckVersion
    \/ DeserializeFields

Spec == Init /\ [][Next]_vars

----------------------------------------------------------------------------
\* Streams whose first bytes come from a peer that need not follow the
\* protocol.  The bytes are written out index by index, not through the
\* serializer above.

MagicBytes == [i \in 1..4 |-> (MAGIC_NUMBER \div (256 ^ (i - 1))) % 256]

\* The magic number big-endian; with its first, or its last, byte off by
\* one; all zero.
WrongMagics ==
    { [i \in 1..4 |-> MagicBytes[5 - i]],
      [MagicBytes EXCEPT ![1] = (@ + 1) % 256],
      [MagicBytes EXCEPT ![4] = (@ + 1) % 256],
      <<0, 0, 0, 0>> }

LengthBytes(L) == <<L % 256, L \div 256>>

DeclaredLengths == {0, 1, 23, 24, 25, 65535}

VersionBytes == {<<1, 0>>, <<2, 0>>, <<0, 9>>, <<1, 1>>, <<0, 0>>}

FieldBytes ==
    { [i \in 1..FieldsLen |-> 0],
      [i \in 1..FieldsLen |-> 255],
      [i \in 1..FieldsLen |-> 10 * i + 1] }

Tails == {<<>>, [i \in 1..TailLen |-> 160 + i]}

\* What follows a declared length L: version bytes, field bytes, filler up
\* to L bytes when L is above 24, then a tail.
Content(L, v, f, t) ==
    v \o f \o [i \in 1..(IF L > 24 THEN L - 24 ELSE 0) |-> 170] \o t

\* How many of the L declared bytes a truncated stream still carries.
TruncatedAt(L) == {n \in {0, 1, 2, 22, 23, 24} : n < L}

RawInputs ==
    { m \o r : m \in WrongMagics,
               r \in {<<>>}
                     \cup { LengthBytes(L) \o v \o f :
                              L \in {24, 25}, v \in {<<1, 0>>, <<2, 0>>},
                              f \in FieldBytes } }
    \cup { Take(MagicBytes, n) : n \in 0..3 }
    \cup { MagicBytes \o Take(LengthBytes(L), n) :
             L \in DeclaredLengths, n \in 0..1 }
    \cup { MagicBytes \o LengthBytes(L) \o Content(L, v, f, t) :
             L \in DeclaredLengths, v \in VersionBytes, f \in FieldBytes,
             t \in Tails }
    \cup UNION { { MagicBytes \o LengthBytes(L)
                   \o Take(Content(L, v, f, <<>>), n) : n \in TruncatedAt(L) } :
                 L \in DeclaredLengths, v \in VersionBytes, f \in FieldBytes }

\* A stream that already carries a peer's bytes; the callers hold no header
\* but those they decode.
InitRaw ==
    /\ wire \in RawInputs
    /\ pool = {}
    /\ Idle

SpecRaw == InitRaw /\ [][Next]_vars

----------------------------------------------------------------------------
\* What the properties below are stated with.

\* The 30-byte frame of header h, byte by byte from the table of offsets.
LimbByte(v, j) ==
    LET limb == v[Len(v) - (j \div 2)]
    IN  IF j % 2 = 0 THEN limb % 256 ELSE limb \div 256

FrameLayout(h) ==
    [i \in 1..30 |->
        CASE i \in 1..4 -> MagicBytes[i]
          [] i = 5 -> 24
          [] i = 6 -> 0
          [] i = 7 -> 1
          [] i = 8 -> 0
          [] i = 9 -> h.provider
          [] i \in 10..17 -> LimbByte(h.session, i - 10)
          [] i = 18 -> h.content_type
          [] i = 19 -> h.accept_type
          [] i = 20 -> h.auth_type
          [] i \in 21..24 -> LimbByte(h.body_len, i - 21)
          [] i = 25 -> h.auth_len % 256
          [] i = 26 -> h.auth_len \div 256
          [] i = 27 -> h.opcode % 256
          [] i = 28 -> h.opcode \div 256
          [] i = 29 -> h.status % 256
          [] i = 30 -> h.status \div 256]

\* The bytes an encode call s put on the stream.
Written(s) == SubSeq(wire, s.at + 1, s.end)

\* The bytes that were on the stream, unread, when decode call e began.
Input(e) == SubSeq(wire, e.at + 1, e.at + e.avail)

Calls == {got[i] : i \in 1..Len(got)}
Encodes == {sent[i] : i \in 1..Len(sent)}

\* Input(e) starts with the magic number / goes on with a declared length.
MagicOk(e) == e.avail >= 4 /\ Take(Input(e), 4) = MagicBytes
Declared(e) == Input(e)[5] + 256 * Input(e)[6]

----------------------------------------------------------------------------
\* C1: Round trip.  A header written by write_to_stream into an empty
\* stream and then read back by read_from_stream from the bytes written
\* comes back Ok and equal to the header written, field by field.
RoundTrip ==
    \A s \in Encodes : \A e \in Calls :
        (s.status = "Ok" /\ s.at = 0 /\ e.at = 0 /\ e.avail >= s.end)
        => /\ e.status = "Ok"
           /\ \A f \in DOMAIN s.h : e.header[f] = s.h[f]
           /\ DOMAIN e.header = DOMAIN s.h

RoundTripWitness ==
    \E s \in Encodes : \E e \in Calls :
        /\ s.status = "Ok" /\ s.at = 0 /\ s.h = MaxHeader
        /\ e.at = 0 /\ e.avail >= s.end
        /\ e.status = "Ok" /\ e.header = MaxHeader

\* C2: Wire layout.  A successful write_to_stream(h) writes exactly the 30
\* bytes of the offset table: magic (0), 24 (4), 1 (6), 0 (7), provider (8),
\* session (9), content_type (17), accept_type (18), auth_type (19),
\* body_len (20), auth_len (24), opcode (26), status (28), all
\* little-endian; the first 8 bytes are the same for every h.
WireLayout ==
    \A s \in Encodes :
        s.status = "Ok"
        => /\ s.end - s.at = 30
           /\ s.writes = 5
           /\ Written(s) = FrameLayout(s.h)
           /\ Take(Written(s), 8) = Take(FrameLayout(ZeroHeader), 8)

WireLayoutWitness ==
    \E s \in Encodes :
        /\ s.status = "Ok" /\ s.h = ScenarioHeader
        /\ Written(s)[21] = 100 /\ Written(s)[17] = 255 /\ Written(s)[27] = 9

\* C7: Failed encode.  A write_to_stream whose k-th write fails returns
\* ConnectionError having issued k writes and no more, and what it put on
\* the stream is a proper prefix of the frame of its header: the whole of
\* the first k-1 pieces (0, 4, 6, 7 or 8 bytes) and the part of the k-th
\* that the failing write accepted.
FailedEncode ==
    \A s \in Encodes :
        s.status # "Ok"
        => /\ s.status = "ConnectionError"
           /\ s.writes \in 1..5
           /\ Len(Written(s)) < 30
           /\ Written(s) = Take(FrameLayout(s.h), Len(Written(s)))
           /\ Len(Written(s)) = <<0, 4, 6, 7, 8>>[s.writes] + s.accepted
           /\ s.accepted < <<4, 2, 1, 1, 22>>[s.writes]

FailedEncodeWitness ==
    \E s \in Encodes :
        /\ s.status = "ConnectionError" /\ s.writes = 4 /\ s.accepted = 0
        /\ Len(Written(s)) = 7

\* C10: Back-to-back frames.  A successful read_from_stream consumes
\* exactly 30 bytes, and when headers h1..hn were encoded one after another
\* from the start of the stream, the first n decode calls, each made with
\* its frame wholly on the stream, return h1..hn in order, each ending
\* where the next frame starts, whatever follows the last frame.
BackToBack ==
    /\ \A e \in Calls : e.status = "Ok" => e.end = e.at + 30
    /\ \A k \in 1..Len(got) :
          (/\ k <= Len(sent)
           /\ \A j \in 1..k : /\ sent[j].status = "Ok"
                              /\ got[j].at + got[j].avail >= sent[j].end)
          => /\ got[k].status = "Ok"
             /\ got[k].header = sent[k].h
             /\ got[k].at = 30 * (k - 1)
             /\ got[k].end = 30 * k

BackToBackWitness ==
    /\ Len(got) >= 2 /\ Len(sent) >= 2
    /\ sent[1].status = "Ok" /\ sent[2].status = "Ok"
    /\ sent[1].h = MixedHeader /\ sent[2].h = ScenarioHeader
    /\ got[1].avail >= 60
    /\ got[1].header = MixedHeader /\ got[2].header = ScenarioHeader
    /\ got[2].end = 60
    /\ Len(wire) > 60

----------------------------------------------------------------------------
\* Properties of read_from_stream on arbitrary input.

\* C3: Magic-first ordering.  When the first four bytes of the input are
\* not the magic number, read_from_stream returns InvalidHeader whatever
\* follows, having made one read and consumed exactly those four bytes; a
\* call that has gone past the magic check has read the magic number.
MagicFirst ==
    /\ \A e \in Calls :
          (e.avail >= 4 /\ ~MagicOk(e))
          => /\ e.status = "InvalidHeader"
             /\ e.end = e.at + 4
             /\ e.reads = 1
    /\ rpc \in {"size", "bytes", "check_size", "version", "check_version",
                "fields"}
       => SubSeq(wire, rstart + 1, rstart + 4) = MagicBytes

MagicFirstWitness ==
    \E e \in Calls :
        /\ e.avail >= 30 /\ ~MagicOk(e)
        /\ SubSeq(Input(e), 5, 8) = <<24, 0, 1, 0>>
        /\ e.status = "InvalidHeader" /\ e.end = e.at + 4

\* C4: Length gate.  With the magic number right, a declared length L other
\* than 24 and at least L bytes after the length field, read_from_stream
\* returns InvalidHeader whatever the L bytes are, after three reads that
\* consumed exactly 6 + L bytes.
LengthGate ==
    \A e \in Calls :
        (MagicOk(e) /\ e.avail >= 6 /\ Declared(e) # 24
         /\ e.avail >= 6 + Declared(e))
        => /\ e.status = "InvalidHeader"
           /\ e.end = e.at + 6 + Declared(e)
           /\ e.reads = 3

LengthGateWitness ==
    \E e \in Calls :
        /\ MagicOk(e) /\ e.avail >= 6 /\ Declared(e) = 25
        /\ e.avail >= 6 + Declared(e)
        /\ SubSeq(Input(e), 7, 8) = <<2, 0>>
        /\ e.status = "InvalidHeader" /\ e.end = e.at + 31

\* C5: Version gate.  With the magic number right, declared length 24 and
\* 24 bytes there, version bytes other than (1, 0) make read_from_stream
\* return WireProtocolVersionNotSupported and no header, whatever the 22
\* field bytes are.
VersionGate ==
    \A e \in Calls :
        (MagicOk(e) /\ e.avail >= 30 /\ Declared(e) = 24
         /\ SubSeq(Input(e), 7, 8) # <<1, 0>>)
        => /\ e.status = "WireProtocolVersionNotSupported"
           /\ e.header = NoHeader

VersionGateWitness ==
    \E e \in Calls :
        /\ MagicOk(e) /\ e.avail >= 30 /\ Declared(e) = 24
        /\ SubSeq(Input(e), 7, 8) = <<1, 1>>
        /\ e.status = "WireProtocolVersionNotSupported"

\* The input of call e ends before the bytes the call asks for.
Truncated(e) ==
    \/ e.avail < 4
    \/ MagicOk(e) /\ e.avail < 6
    \/ MagicOk(e) /\ e.avail >= 6 /\ e.avail < 6 + Declared(e)

\* C6: Truncation.  An input that ends inside the magic number, or has the
\* magic number right and ends inside the length field or before all L
\* declared bytes (L = 24 or not), makes read_from_stream return
\* ConnectionError, never a header and never InvalidHeader.
Truncation ==
    \A e \in Calls :
        Truncated(e) => e.status = "ConnectionError" /\ e.header = NoHeader

TruncationWitness ==
    \E e \in Calls :
        /\ MagicOk(e) /\ e.avail = 30 /\ Declared(e) = 25
        /\ e.status = "ConnectionError"

\* The input of call e starts with a 1.0 envelope; a byte string as limbs.
WellFormed(e) ==
    /\ MagicOk(e) /\ e.avail >= 30 /\ Declared(e) = 24
    /\ SubSeq(Input(e), 7, 8) = <<1, 0>>

Wide(b) == [i \in 1..(Len(b) \div 2) |->
               b[Len(b) - 2 * i + 1] + 256 * b[Len(b) - 2 * i + 2]]

\* C9: A well-formed envelope always decodes.  On 30 bytes with the magic
\* number, declared length 24 and version (1, 0), read_from_stream returns
\* Ok for any 22 field bytes, each field being the little-endian integer at
\* its offset, and write_to_stream of that header gives the same 30 bytes.
WellFormedDecodes ==
    \A e \in Calls :
        WellFormed(e)
        => LET F == Take(Input(e), 30)
           IN  /\ e.status = "Ok"
               /\ e.header.provider = F[9]
               /\ e.header.session = Wide(SubSeq(F, 10, 17))
               /\ e.header.content_type = F[18]
               /\ e.header.accept_type = F[19]
               /\ e.header.auth_type = F[20]
               /\ e.header.body_len = Wide(SubSeq(F, 21, 24))
               /\ e.header.auth_len = F[25] + 256 * F[26]
               /\ e.header.opcode = F[27] + 256 * F[28]
               /\ e.header.status = F[29] + 256 * F[30]
               /\ \A s \in Encodes :
                     (s.status = "Ok" /\ s.h = e.header) => Written(s) = F

WellFormedDecodesWitness ==
    \E e \in Calls : \E s \in Encodes :
        /\ WellFormed(e) /\ e.at = 0
        /\ Input(e)[9] = 11 /\ Input(e)[30] = 221
        /\ e.status = "Ok"
        /\ s.status = "Ok" /\ s.h = e.header /\ s.at >= 30

----------------------------------------------------------------------------
\* A decode call, once started, runs to its return.

ReadStep ==
    \/ ReadMagic
    \/ CheckMagic
    \/ ReadHdrSize
    \/ ReadBytes
    \/ CheckHdrSize
    \/ TakeVersion
    \/ CheckVersion
    \/ DeserializeFields

SpecRawFair == SpecRaw /\ WF_vars(ReadStep)

\* The steps of read_from_stream in program order.
Rank(pc) ==
    CASE pc = "magic" -> 1
      [] pc = "check_magic" -> 2
      [] pc = "size" -> 3
      [] pc = "bytes" -> 4
      [] pc = "check_size" -> 5
      [] pc = "version" -> 6
      [] pc = "check_version" -> 7
      [] pc = "fields" -> 8
      [] pc = "idle" -> 9

Outcomes ==
    {"Ok", "InvalidHeader", "ConnectionError",
     "WireProtocolVersionNotSupported", "InvalidEncoding"}

OutcomeInv ==
    /\ \A e \in Calls :
          /\ e.status \in Outcomes
          /\ (e.status = "Ok") = (e.header # NoHeader)
          /\ e.reads \in 1..3
    /\ reads <= 3
    /\ rpc \in {"version"} => Len(bytes) = 24
    /\ rpc # "idle" => ENABLED ReadStep

NoRetry ==
    rpc # "idle"
    => /\ Rank(rpc') > Rank(rpc)
       /\ rpc' = "idle" => Len(got') = Len(got) + 1

\* C8: Decode always ends in a declared outcome.  On every finite input
\* read_from_stream, once called, returns; it returns a header, or one of
\* InvalidHeader, ConnectionError, WireProtocolVersionNotSupported and
\* InvalidEncoding; it makes at most three reads and only moves forward
\* through its steps; and it takes the version bytes only from a buffer of
\* exactly 24 bytes, so it never aborts.
DeclaredOutcome ==
    /\ []OutcomeInv
    /\ [][NoRetry]_vars
    /\ (rpc # "idle") ~> (rpc = "idle")

DeclaredOutcomeWitness ==
    \E e \in Calls :
        /\ MagicOk(e) /\ e.avail >= 7 /\ Declared(e) = 1
        /\ e.status = "InvalidHeader" /\ e.reads = 3 /\ e.end = e.at + 7

====
